---- MODULE Spec2Model ----
(***************************************************************************)
(* scripts/mt_to_vcf.py: convert a (sparse) Hail matrix table into a       *)
(* sites-only table and export it as a VCF.                                *)
(*                                                                         *)
(* Hail values that may be missing (NA) are modelled as sequences of       *)
(* length at most one: << >> is a missing value, <<v>> a defined one.      *)
(* A table is the set of its rows; a row is a record.                      *)
(***************************************************************************)
EXTENDS Integers, Sequences, FiniteSets, TLC

\* ---------------------------------------------------------------- bounds
\* number of loci of the persisted matrix table
MaxRows == 2
\* largest per-sample depth of an entry
MaxDP == 2
\* the calls of an entry index the alleles 0..MaxAlleles-1
MaxAlleles == 2
\* default of --n-partitions
DefaultNPartitions == 5000

Samples == {"s1", "s2"}
Loci == 1..MaxRows
NPartitionsValues == {1, DefaultNPartitions}

\* ------------------------------------------------------- missing values
Missing == << >>
Some(v) == <<v>>
IsDefined(x) == x # Missing
Get(x) == x[1]
Opt(S) == {Missing} \cup {Some(v) : v \in S}

\* ------------------------------------------------------------- entries
\* a diploid call over the alleles 0..n-1, unphased
Calls(n) == {<<a, b>> : a \in 0..(n - 1), b \in 0..(n - 1)} \ {<<a, b>> \in (0..(n - 1)) \X (0..(n - 1)) : a > b}

\* an entry whose fields are all missing (nothing stored at this locus for the sample)
MissingEntry == [GT |-> Missing, DP |-> Missing, END |-> Missing]

\* every combination of a call and a depth, defined or not; a call is a pair of
\* allele indices that nothing ties to the row's allele list
Entries == [GT : Opt(Calls(MaxAlleles)), DP : Opt(0..MaxDP), END : {Missing}]

\* the entries of a sparse matrix table at locus i: nothing, a reference block
\* that ends at i or runs to the last locus, or a heterozygous variant call
SparseEntries(n, i) ==
    {MissingEntry}
    \cup {[GT |-> Some(<<0, 0>>), DP |-> Some(1), END |-> Some(e)] : e \in {i, MaxRows}}
    \cup (IF n > 1 THEN {[GT |-> Some(<<0, 1>>), DP |-> Some(MaxDP), END |-> Missing]} ELSE {})

AlleleLists == {<<"T">>, <<"GCT", "G">>}

\* the rows at locus i with alleles al whose entries are drawn from ents
Rows(i, al, ents) == [locus : {i}, alleles : {al}, entries : [Samples -> ents]]

\* one locus, every combination of entries
EntryTables == {{}} \cup {{r} : r \in UNION {Rows(1, al, Entries) : al \in AlleleLists}}

SparseRowsAt(i) == UNION {Rows(i, al, SparseEntries(Len(al), i)) : al \in AlleleLists}

\* sparse tables of k rows at the loci 1..k
RECURSIVE TablesOf(_)
TablesOf(k) ==
    IF k = 0 THEN {{}}
    ELSE {t \cup {r} : t \in TablesOf(k - 1), r \in SparseRowsAt(k)}

SparseTables == UNION {TablesOf(k) : k \in 0..MaxRows}

InputTables == EntryTables \cup SparseTables

\* --------------------------------------------------------------- state
VARIABLES
    mt_path,       \* --mt: [ext, exists]
    overwrite,     \* --overwrite/--reuse
    out_exists,    \* whether output_path existed when the run started
    n_partitions,  \* --n-partitions
    disk,          \* the matrix table persisted at mt_path
    pc,            \* the call the run is about to make
    mt,            \* main's / _filter_rows_and_add_tags's local mt
    dense,         \* the value of mt after line 110 (densify)
    agg_dp,        \* the DP the delegated aggregator put in info, if any
    ht,            \* the sites-only table: [rows, n_partitions]
    vcf,           \* the records written to output_path
    ran,           \* how many times each stage was entered
    failed_at,     \* the stage whose error ended the run
    log,           \* logger.info messages
    result         \* export_sites_only_vcf's return value

vars == <<mt_path, overwrite, out_exists, n_partitions, disk, pc, mt, dense,
          agg_dp, ht, vcf, ran, failed_at, log, result>>

Stages == <<"init_hail", "read_matrix_table", "filter_rows_and_add_tags",
            "create_info_ht", "adjust_vcf_incompatible_types", "export_vcf">>
StageSet == {Stages[i] : i \in 1..Len(Stages)}
StageIndex(s) == CHOOSE i \in 1..Len(Stages) : Stages[i] = s

Key(r) == <<r.locus, r.alleles>>
Keys(t) == {Key(r) : r \in t}

\* -------------------------------------------------- click option --mt
\* get_validation_callback(ext='mt', must_exist=True)
ValidMtPath(p) == p.ext = "mt" /\ p.exists

\* ------------------------------------------- hl.experimental.densify
\* the reference block covering sample s at row r: the entry of the nearest
\* earlier row that carries END, if it ends at or after r's locus
CoveringBlock(t, r, s) ==
    LET prev == {x \in t : x.locus < r.locus /\ IsDefined(x.entries[s].END)}
    IN  IF prev = {} THEN MissingEntry
        ELSE LET p == CHOOSE x \in prev : \A y \in prev : y.locus <= x.locus
             IN  IF Get(p.entries[s].END) >= r.locus THEN p.entries[s] ELSE MissingEntry

densify(t) ==
    {[r EXCEPT !.entries = [s \in Samples |->
                              IF r.entries[s] # MissingEntry THEN r.entries[s]
                              ELSE CoveringBlock(t, r, s)]] : r \in t}

\* ------------------------------------------------ expressions, aggregators
\* Call.is_non_ref(): missing for a missing call
is_non_ref_bug_missing(gt) == Some(gt # Some(<<0, 0>>))
is_non_ref(gt) ==
    IF IsDefined(gt) THEN Some(Get(gt)[1] # 0 \/ Get(gt)[2] # 0) ELSE Missing

\* hl.agg.count_where: the samples where the condition is defined and true
count_where_non_ref(r) == Cardinality({s \in Samples : is_non_ref(r.entries[s].GT) = Some(TRUE)})
count_where_defined(r) == Cardinality({s \in Samples : IsDefined(r.entries[s].GT)})

\* hl.agg.any(c) is count_where(c) > 0
agg_any_non_ref(r) == count_where_non_ref(r) > 0

\* hl.agg.sum: missing values are not summed
RECURSIVE agg_sum_DP(_, _)
agg_sum_DP(r, S) ==
    IF S = {} THEN 0
    ELSE LET s == CHOOSE x \in S : TRUE
         IN  (IF IsDefined(r.entries[s].DP) THEN Get(r.entries[s].DP) ELSE 0)
             + agg_sum_DP(r, S \ {s})

\* ------------------------------------------ _filter_rows_and_add_tags
filter_rows_bug_or(t) == {r \in t : (Len(r.alleles) > 1) \/ agg_any_non_ref(r)}
filter_rows_bug_defined(t) == {r \in t : (Len(r.alleles) > 1) /\ count_where_defined(r) > 0}
filter_rows(t) == {r \in t : (Len(r.alleles) > 1) /\ agg_any_non_ref(r)}

annotate_site_dp_bug(t) == {r @@ [site_dp |-> [t |-> "int64", v |-> Some(agg_sum_DP(r, {s \in Samples : IsDefined(r.entries[s].GT)}))]] : r \in t}
annotate_site_dp(t) == {r @@ [site_dp |-> [t |-> "int64", v |-> Some(agg_sum_DP(r, Samples))]] : r \in t}

annotate_ANS_bug(t) == {r @@ [ANS |-> [t |-> "int64", v |-> Some(Cardinality(Samples) * 2)]] : r \in t}
annotate_ANS(t) == {r @@ [ANS |-> [t |-> "int64", v |-> Some(count_where_defined(r) * 2)]] : r \in t}

_filter_rows_and_add_tags(t) == annotate_ANS(annotate_site_dp(filter_rows(densify(t))))

\* ------------------------------------------------------ _create_info_ht
\* alternate allele copies among the calls of a row
AC(r) == Cardinality({s \in Samples : is_non_ref(r.entries[s].GT) = Some(TRUE)})
         + Cardinality({s \in Samples : IsDefined(r.entries[s].GT) /\ Get(r.entries[s].GT)[1] # 0})

\* gnomad default_compute_info: a table of the same keys whose only row field
\* of interest is info; naive_coalesce(n) caps the number of partitions.
\* d is the DP the aggregator itself computes, if it computes one.
default_compute_info(t, n, d) ==
    [rows |-> {[locus |-> r.locus, alleles |-> r.alleles,
                info |-> [AC |-> [t |-> "int32", v |-> Some(AC(r))]]
                         @@ (IF IsDefined(d) THEN [DP |-> [t |-> "int32", v |-> d]] ELSE <<>>)]
               : r \in t},
     n_partitions |-> n]

\* mt.rows()[key].site_dp: missing when no row has the key
site_dp_of(t, key) ==
    LET m == {x \in t : Key(x) = key}
    IN  IF m = {} THEN [t |-> "int64", v |-> Missing] ELSE (CHOOSE x \in m : TRUE).site_dp

_create_info_ht_bug_keep(t, n, d) ==
    LET info_ht == default_compute_info(t, n, d)
    IN  [info_ht EXCEPT !.rows = {[r EXCEPT !.info = r.info @@ [DP |-> site_dp_of(t, Key(r))]] : r \in info_ht.rows}]
_create_info_ht_bug_n(t, n, d) ==
    LET info_ht == default_compute_info(t, n, d)
    IN  [info_ht EXCEPT !.rows = {[r EXCEPT !.info = [DP |-> [t |-> "int64", v |-> Some(n)]] @@ r.info] : r \in info_ht.rows}]
_create_info_ht(t, n, d) ==
    LET info_ht == default_compute_info(t, n, d)
    IN  [info_ht EXCEPT !.rows = {[r EXCEPT !.info = [DP |-> site_dp_of(t, Key(r))] @@ r.info] : r \in info_ht.rows}]

\* ---------------------------------------- adjust_vcf_incompatible_types
\* 64-bit integers are not representable in a VCF: they become int32, capped
adjust_value(x) ==
    IF x.t = "int64"
    THEN [t |-> "int32", v |-> IF IsDefined(x.v) /\ Get(x.v) > 2147483647 THEN Some(2147483647) ELSE x.v]
    ELSE x

adjust_vcf_incompatible_types(h) ==
    [h EXCEPT !.rows = {[r EXCEPT !.info = [f \in DOMAIN r.info |-> adjust_value(r.info[f])]] : r \in h.rows}]

mt_to_sites_only_ht(t, n, d) == adjust_vcf_incompatible_types(_create_info_ht(_filter_rows_and_add_tags(t), n, d))

\* ------------------------------------------------------- hl.export_vcf
\* one record per row; an INFO field whose value is missing is not written
export_vcf(h) ==
    {[locus |-> r.locus, alleles |-> r.alleles,
      info |-> [f \in {g \in DOMAIN r.info : IsDefined(r.info[g].v)} |-> Get(r.info[f].v)]]
     : r \in h.rows}

\* ---------------------------------------------------------------- run
MtPaths == [ext : {"mt", "vcf"}, exists : BOOLEAN]
NoTable == [rows |-> {}, n_partitions |-> 0]

Init ==
    /\ mt_path \in MtPaths
    /\ overwrite \in BOOLEAN
    /\ out_exists \in BOOLEAN
    /\ n_partitions \in NPartitionsValues
    /\ disk \in InputTables
    /\ pc = "parse_args"
    /\ mt = {}
    /\ dense = {}
    /\ agg_dp = Missing
    /\ ht = NoTable
    /\ vcf = Missing
    /\ ran = [s \in StageSet |-> 0]
    /\ failed_at = Missing
    /\ log = << >>
    /\ result = Missing

Enter(s) == ran' = [ran EXCEPT ![s] = @ + 1]

\* click parses the options and calls the --mt callback before main's body;
\* a rejected value is a usage error and main is not called
ParseArgsUnchecked ==
    /\ pc = "parse_args"
    /\ pc' = "init_hail"
    /\ UNCHANGED <<mt_path, overwrite, out_exists, n_partitions, disk, mt, dense,
                   agg_dp, ht, vcf, ran, failed_at, log, result>>
ParseArgs ==
    /\ pc = "parse_args"
    /\ pc' = IF ValidMtPath(mt_path) THEN "init_hail" ELSE "usage_error"
    /\ UNCHANGED <<mt_path, overwrite, out_exists, n_partitions, disk, mt, dense,
                   agg_dp, ht, vcf, ran, failed_at, log, result>>

\* line 71, then the log of line 73
InitHail ==
    /\ pc = "init_hail"
    /\ Enter("init_hail")
    /\ log' = Append(log, "Loading matrix table")
    /\ pc' = "read_matrix_table"
    /\ UNCHANGED <<mt_path, overwrite, out_exists, n_partitions, disk, mt, dense,
                   agg_dp, ht, vcf, failed_at, result>>

\* line 74, then the call of line 75 and the log of line 84
ReadMatrixTable ==
    /\ pc = "read_matrix_table"
    /\ Enter("read_matrix_table")
    /\ mt' = disk
    /\ log' = Append(log, "Converting matrix table to sites-only matrix table")
    /\ pc' = "filter_rows_and_add_tags"
    /\ UNCHANGED <<mt_path, overwrite, out_exists, n_partitions, disk, dense,
                   agg_dp, ht, vcf, failed_at, result>>

\* line 103
FilterRowsAndAddTags ==
    /\ pc = "filter_rows_and_add_tags"
    /\ Enter("filter_rows_and_add_tags")
    /\ dense' = densify(mt)
    /\ mt' = _filter_rows_and_add_tags(mt)
    /\ pc' = "create_info_ht"
    /\ UNCHANGED <<mt_path, overwrite, out_exists, n_partitions, disk,
                   agg_dp, ht, vcf, failed_at, log, result>>

\* what the delegated aggregator may put in info.DP: nothing, or a depth of its own
AggregatorDP == {Missing, Some(0)}

\* line 104
CreateInfoHt ==
    /\ pc = "create_info_ht"
    /\ Enter("create_info_ht")
    /\ \E d \in AggregatorDP :
          /\ agg_dp' = d
          /\ ht' = _create_info_ht(mt, n_partitions, d)
    /\ pc' = "adjust_vcf_incompatible_types"
    /\ UNCHANGED <<mt_path, overwrite, out_exists, n_partitions, disk, mt, dense,
                   vcf, failed_at, log, result>>

\* line 105, then the return of line 106 and the log of lines 86-88
AdjustTypes ==
    /\ pc = "adjust_vcf_incompatible_types"
    /\ Enter("adjust_vcf_incompatible_types")
    /\ ht' = adjust_vcf_incompatible_types(ht)
    /\ log' = Append(log, "Exporting sites-only VCF")
    /\ pc' = "export_vcf"
    /\ UNCHANGED <<mt_path, overwrite, out_exists, n_partitions, disk, mt, dense,
                   agg_dp, vcf, failed_at, result>>

\* line 89, then the log of line 90 and the return of line 92
ExportVcf ==
    /\ pc = "export_vcf"
    /\ Enter("export_vcf")
    /\ vcf' = Some(export_vcf(ht))
    /\ log' = Append(log, "Successfully exported sites-only VCF")
    /\ result' = Some("output_path")
    /\ pc' = "done"
    /\ UNCHANGED <<mt_path, overwrite, out_exists, n_partitions, disk, mt, dense,
                   agg_dp, ht, failed_at>>

\* the call the run is in raises: no try/except anywhere, the error leaves main
RaiseAndRetry ==
    /\ pc \in StageSet
    /\ Enter(pc)
    /\ UNCHANGED <<mt_path, overwrite, out_exists, n_partitions, disk, pc, mt, dense,
                   agg_dp, ht, vcf, failed_at, log, result>>
Raise ==
    /\ pc \in StageSet
    /\ Enter(pc)
    /\ failed_at' = Some(pc)
    /\ pc' = "failed"
    /\ UNCHANGED <<mt_path, overwrite, out_exists, n_partitions, disk, mt, dense,
                   agg_dp, ht, vcf, log, result>>

Next ==
    \/ ParseArgs
    \/ InitHail
    \/ ReadMatrixTable
    \/ FilterRowsAndAddTags
    \/ CreateInfoHt
    \/ AdjustTypes
    \/ ExportVcf
    \/ Raise

Spec == Init /\ [][Next]_vars

\* ------------------------------------------------------------ properties
\* stage s was entered once and returned
Completed(s) == ran[s] = 1 /\ failed_at # Some(s)

\* a call other than homozygous reference
NonRefCall(gt) == gt # Missing /\ gt # Some(<<0, 0>>)
PassesFilter(r) == Len(r.alleles) > 1 /\ \E s \in Samples : NonRefCall(r.entries[s].GT)
AllCallsMissing(r) == \A s \in Samples : r.entries[s].GT = Missing
DefinedCalls(r) == {s \in Samples : r.entries[s].GT # Missing}
\* the sum of the defined depths of a row, by counting units
DepthUnits(r) == {<<s, i>> \in Samples \X (1..MaxDP) : r.entries[s].DP # Missing /\ i <= r.entries[s].DP[1]}
TotalDepth(r) == Cardinality(DepthUnits(r))
DenseRow(k) == CHOOSE r \in dense : Key(r) = k

\* C1: a row of the densified table is retained by _filter_rows_and_add_tags
\* iff it has more than one allele and some sample has a non-reference call;
\* nothing else is retained.
C1_FilterIff ==
    Completed("filter_rows_and_add_tags") =>
        /\ \A r \in dense : (Key(r) \in Keys(mt)) <=> PassesFilter(r)
        /\ Keys(mt) \subseteq Keys(dense)

C1_Witness ==
    /\ Completed("filter_rows_and_add_tags")
    /\ \E r \in dense : Key(r) \in Keys(mt)
    /\ \E r \in dense : /\ Len(r.alleles) > 1
                        /\ DefinedCalls(r) # {}
                        /\ \A s \in DefinedCalls(r) : r.entries[s].GT = Some(<<0, 0>>)
                        /\ Key(r) \notin Keys(mt)

\* C2: a row with several alleles whose call is missing for every sample is
\* excluded from the filtered table and from the exported records.
C2_AllMissingExcluded ==
    Completed("filter_rows_and_add_tags") =>
        \A r \in dense :
            (Len(r.alleles) > 1 /\ AllCallsMissing(r)) =>
                /\ Key(r) \notin Keys(mt)
                /\ vcf # Missing => Key(r) \notin Keys(Get(vcf))

C2_Witness ==
    /\ pc = "done"
    /\ \E r \in dense : r.alleles = <<"GCT", "G">> /\ AllCallsMissing(r)
    /\ Get(vcf) # {}

\* C3: every row of the table mt_to_sites_only_ht returns has info.DP equal to
\* the sum of the row's defined per-sample depths, whatever DP the delegated
\* aggregator computed; the exported record carries the same value.
C3_InfoDP ==
    /\ Completed("adjust_vcf_incompatible_types") =>
           \A r \in ht.rows : /\ Key(r) \in Keys(dense)
                              /\ "DP" \in DOMAIN r.info
                              /\ r.info.DP.v = Some(TotalDepth(DenseRow(Key(r))))
    /\ vcf # Missing =>
           \A r \in Get(vcf) : /\ "DP" \in DOMAIN r.info
                               /\ r.info.DP = TotalDepth(DenseRow(Key(r)))

C3_Witness ==
    /\ pc = "done"
    /\ agg_dp = Some(0)
    /\ \E r \in Get(vcf) : /\ r.info.DP = MaxDP
                           /\ \E s \in Samples : DenseRow(Key(r)).entries[s].DP = Missing

\* C4: every row retained by _filter_rows_and_add_tags has ANS equal to twice
\* the number of samples whose call is defined.
C4_ANS ==
    Completed("filter_rows_and_add_tags") =>
        \A r \in mt : /\ "ANS" \in DOMAIN r
                      /\ r.ANS.v = Some(2 * Cardinality(DefinedCalls(DenseRow(Key(r)))))

C4_Witness ==
    /\ Completed("filter_rows_and_add_tags")
    /\ \E r \in mt : r.ANS.v = Some(2)
    /\ \E r \in mt : r.ANS.v = Some(4)

\* C5: every record handed to the VCF writer has both DP and ANS among its
\* INFO fields.
C5_InfoHasDPAndANS ==
    /\ Completed("adjust_vcf_incompatible_types") =>
           \A r \in ht.rows : {"DP", "ANS"} \subseteq DOMAIN r.info
    /\ vcf # Missing =>
           \A r \in Get(vcf) : {"DP", "ANS"} \subseteq DOMAIN r.info

\* C6: the exported records have exactly the keys of the input rows that pass
\* the row filter, one record per key, and so has every table in between.
C6_KeysPreserved ==
    LET kept == {Key(r) : r \in {x \in dense : PassesFilter(x)}}
    IN  /\ Completed("filter_rows_and_add_tags") =>
               /\ Keys(dense) = Keys(disk)
               /\ Cardinality(dense) = Cardinality(disk)
               /\ Keys(mt) = kept /\ Cardinality(mt) = Cardinality(kept)
        /\ Completed("create_info_ht") =>
               Keys(ht.rows) = kept /\ Cardinality(ht.rows) = Cardinality(kept)
        /\ vcf # Missing =>
               Keys(Get(vcf)) = kept /\ Cardinality(Get(vcf)) = Cardinality(kept)

C6_Witness ==
    /\ pc = "done"
    /\ Cardinality(Get(vcf)) = 1
    /\ Cardinality(disk) = MaxRows
    /\ MaxRows > 1

\* C7: the run's table and records are those of a run on the same input with
\* any other n_partitions: only the table's partition count follows it.
C7_PartitionsIrrelevant ==
    Completed("adjust_vcf_incompatible_types") =>
        \A n \in NPartitionsValues :
            LET other == mt_to_sites_only_ht(disk, n, agg_dp)
            IN  /\ other.rows = ht.rows
                /\ other.n_partitions = n
                /\ vcf # Missing => export_vcf(other) = Get(vcf)

C7_Witness ==
    /\ pc = "done"
    /\ n_partitions = 1
    /\ Get(vcf) # {}
    /\ ht.n_partitions # mt_to_sites_only_ht(disk, DefaultNPartitions, agg_dp).n_partitions

\* C8: with an --mt path that does not exist or has another extension, no
\* stage is ever entered: the run ends in a usage error.
C8_ValidatedFirst ==
    (mt_path.ext # "mt" \/ ~mt_path.exists) =>
        /\ \A s \in StageSet : ran[s] = 0
        /\ pc \in {"parse_args", "usage_error"}
        /\ mt = {} /\ vcf = Missing /\ log = << >> /\ result = Missing

C8_Witness == pc = "usage_error" /\ mt_path.ext = "mt" /\ ~mt_path.exists

\* C9: no stage is entered twice; an error ends the run where it was raised,
\* and no later stage runs; success is logged and output_path returned only
\* after export_vcf returned.
SuccessLogged == \E i \in 1..Len(log) : log[i] = "Successfully exported sites-only VCF"

C9_AllOrNothing ==
    /\ \A s \in StageSet : ran[s] <= 1
    /\ \A s \in StageSet :
          failed_at = Some(s) =>
              /\ pc = "failed"
              /\ ~ENABLED Next
              /\ \A i \in 1..Len(Stages) : i > StageIndex(s) => ran[Stages[i]] = 0
              /\ ~SuccessLogged /\ result = Missing /\ vcf = Missing
    /\ (SuccessLogged \/ result # Missing) =>
          /\ SuccessLogged /\ result = Some("output_path")
          /\ Completed("export_vcf") /\ vcf # Missing /\ failed_at = Missing

C9_Witness == pc = "failed" /\ failed_at = Some("export_vcf") /\ ht.rows # {}

\* C10: with --reuse, when the final file already exists the run does not run
\* the code that generates it.
C10_ReuseSkips ==
    (~overwrite /\ out_exists) => ran["export_vcf"] = 0

====
